---- MODULE Spec2Model ----
(***************************************************************************)
(* Model of miku-server-timing (src/src/lib.rs): a tower layer whose       *)
(* service forwards poll_ready and call to an inner service, and whose     *)
(* ResponseFuture, on the poll that sees the inner future complete with a  *)
(* response, prepends a `server-timing` entry to the response's headers.   *)
(*                                                                         *)
(* Text is modelled as sequences of bytes (ASCII codes), so that the       *)
(* legality checks of http::HeaderValue are computed on the bytes.         *)
(* The clock counts ticks; one tick is ClockStep tenths of a millisecond.  *)
(***************************************************************************)
EXTENDS Integers, Sequences, FiniteSets, TLC

\* ---------------------------------------------------------------- bounds
\* Largest reading of the monotonic clock, in ticks.
MaxTicks == 2
\* Tenths of a millisecond per clock tick.
ClockStep == 75
\* Largest number of poll_ready calls made on the wrapper.
MaxReadyPolls == 2

\* The requests in flight through one service, numbered in order of arrival.
Req == {1, 2}

\* ------------------------------------------------------- values and text
\* Option<T> / Result<T, E> as records.
None == [some |-> FALSE]
Some(v) == [some |-> TRUE, val |-> v]

\* Descriptor names handed to ServerTimingLayer::new: "s" and "s\n".
Apps == { <<115>>, <<115, 10>> }
\* Descriptions: none, or "d" (with_description).
Descriptions == { None, Some(<<100>>) }

\* server-timing values the inner handler may leave on its response:
\* absent, the empty text, "i;dur=2", and the single obs-text byte 0xFF
\* (a legal HeaderValue that is not visible ASCII).
InnerTimings == { None, Some(<<>>), Some(<<105, 59, 100, 117, 114, 61, 50>>), Some(<<255>>) }

\* The rest of a response as the inner handler produces it.
Payloads ==
    { [status |-> 200, body |-> "ok", other |-> "text/plain"],
      [status |-> 404, body |-> "",   other |-> "text/html"] }

\* Response<B>: status, body, the server-timing header, the other headers,
\* and whether the header map can still reserve room for one more entry.
InnerResponses ==
    { [status |-> p.status, body |-> p.body, other |-> p.other,
       timing |-> t, full |-> f] :
        p \in Payloads, t \in InnerTimings, f \in BOOLEAN }

\* S::Error values.
Errors == { "e1", "e2" }

\* What one poll of the inner future yields.
InnerPolls ==
    { [kind |-> "Pending"] }
    \cup { [kind |-> "Err", err |-> e] : e \in Errors }
    \cup { [kind |-> "Ok", response |-> resp] : resp \in InnerResponses }

\* What one poll_ready of the inner service yields.
InnerReady ==
    { [kind |-> "Pending"], [kind |-> "Ok"] }
    \cup { [kind |-> "Err", err |-> e] : e \in Errors }

\* ------------------------------------------------------------- variables
VARIABLES
    app,           \* ServerTimingService.app
    description,   \* ServerTimingService.description
    now,           \* the monotonic clock (Instant::now), in ticks
    fut,           \* per request: the ResponseFuture and its position
    innerCalls,    \* per request: the clock at call and the request the inner call got
    innerOut,      \* per request: what the last poll of the inner future yielded, and
                   \* the clock when it was observed complete
    out,           \* per request: what the last poll of the ResponseFuture yielded
    headerOps,     \* per request: number of times the header entry was taken
    ready          \* poll_ready bookkeeping of the wrapper and the inner service

vars == <<app, description, now, fut, innerCalls, innerOut, out, headerOps, ready>>

\* --------------------------------------------------- http::HeaderValue
\* HeaderValue::from_str accepts bytes >= 32 other than DEL, and tab.
IsValid(b) == (b >= 32 /\ b # 127) \/ b = 9

\* HeaderValue::to_str accepts visible ASCII and tab only.
IsVisibleAscii(b) == (b >= 32 /\ b < 127) \/ b = 9

HeaderValueFromStr(s) ==
    IF \A i \in 1..Len(s) : IsValid(s[i]) THEN Some(s) ELSE None

ToStr(v) ==
    IF \A i \in 1..Len(v) : IsVisibleAscii(v[i]) THEN Some(v) ELSE None

\* ------------------------------------------------- macro_toolset strings
\* Option/Result .with_prefix / .with_suffix: nothing is written when the
\* value is None / Err, otherwise prefix, value (value, suffix).
WithPrefix(x, prefix) == IF x.some THEN Some(prefix \o x.val) ELSE None
WithSuffix(x, suffix) == IF x.some THEN Some(x.val \o suffix) ELSE None
\* Pushing an Option/Result to the string being concatenated.
Push(x) == IF x.some THEN x.val ELSE <<>>

RECURSIVE Itoa(_)
Itoa(n) == IF n < 10 THEN <<48 + n>> ELSE Append(Itoa(n \div 10), 48 + (n % 10))

\* NumStr::new_default(ms).set_resize_len::<1>() on a value given in tenths
\* of a millisecond: integer part, ".", one fractional digit.
NumStr(tenths) == Itoa(tenths \div 10) \o <<46>> \o <<48 + (tenths % 10)>>

\* Instant::elapsed: the clock now minus the instant, never negative.
Elapsed(request_time, t) == IF t >= request_time THEN t - request_time ELSE 0

\* as_secs_f32() * 1000.0, in tenths of a millisecond.
Millis(ticks) == ticks * ClockStep

\* ------------------------------------------------------ ResponseFuture
\* Variant: the prefix and suffix are written around the description even
\* when there is none.
DescriptionPartAlways(d) == Some(<<100, 101, 115, 99, 61, 34>> \o Push(d) \o <<34, 59>>)

\* this.description.with_prefix("desc=\"").with_suffix("\";")
DescriptionPart(d) == WithSuffix(WithPrefix(d, <<100, 101, 115, 99, 61, 34>>), <<34, 59>>)

\* new_server_timing_content: (app, ";", description part, "dur=", number)
NewServerTimingContent(a, d, ms) ==
    a \o <<59>> \o Push(DescriptionPart(d)) \o <<100, 117, 114, 61>> \o NumStr(ms)

\* Variant: an empty old value is trimmed, no separator is written for it.
OldPartTrimmed(old) == IF old = <<>> THEN None ELSE WithPrefix(ToStr(old), <<44, 32>>)

\* val.get().to_str().with_prefix(", ") of the occupied entry
OldPart(old) == WithPrefix(ToStr(old), <<44, 32>>)

\* The text handed to HeaderValue::from_str: str_concat!(content, old part)
\* for an occupied entry, str_concat!(content) for a vacant one.
MergedText(entry, content) ==
    IF entry.some THEN content \o Push(OldPart(entry.val)) ELSE content

\* Variant: the entry is taken without the capacity check.
TryEntryUnchecked(response) == Some(response.timing)

\* headers_mut().try_entry(SERVER_TIMING): Err when the map cannot reserve
\* room for one more entry, else the entry (occupied with the old value,
\* or vacant).
TryEntry(response) == IF response.full THEN None ELSE Some(response.timing)

\* The match on try_entry: the response after the insert, or a panic when
\* HeaderValue::from_str(..).unwrap() is handed an illegal text, or the
\* response as it was when try_entry failed.
AddServerTiming(f, response, t) ==
    LET entry == TryEntry(response) IN
    IF ~entry.some
    THEN [kind |-> "Ok", response |-> response, ops |-> 0]
    ELSE LET content == NewServerTimingContent(f.app, f.description,
                            Millis(Elapsed(f.request_time, t)))
             value == HeaderValueFromStr(MergedText(entry.val, content))
         IN IF value.some
            THEN [kind |-> "Ok", response |-> [response EXCEPT !.timing = value], ops |-> 1]
            ELSE [kind |-> "Panic", ops |-> 1]

\* Variant: the inner error is replaced by a fixed error.
ResponseFuturePollMapErr(f, inner, t) ==
    IF inner.kind = "Pending" THEN [kind |-> "Pending", ops |-> 0]
    ELSE IF inner.kind = "Err" THEN [kind |-> "Err", err |-> "e1", ops |-> 0]
    ELSE AddServerTiming(f, inner.response, t)

\* Variant: the header is put on a fresh default response (B: Default).
ResponseFuturePollFresh(f, inner, t) ==
    IF inner.kind = "Pending" THEN [kind |-> "Pending", ops |-> 0]
    ELSE IF inner.kind = "Err" THEN [kind |-> "Err", err |-> inner.err, ops |-> 0]
    ELSE LET o == AddServerTiming(f, inner.response, t) IN
         IF o.kind = "Ok" /\ o.ops = 1
         THEN [o EXCEPT !.response.status = 200, !.response.body = "",
                        !.response.other = ""]
         ELSE o

\* Variant: the start instant is kept in one place shared by the futures,
\* so every future measures from the latest call.
ResponseFuturePollShared(f, inner, t) ==
    LET latest == CHOOSE x \in { fut[q].request_time : q \in Req } :
                      \A q \in Req : fut[q].request_time <= x
    IN  IF inner.kind = "Pending" THEN [kind |-> "Pending", ops |-> 0]
        ELSE IF inner.kind = "Err" THEN [kind |-> "Err", err |-> inner.err, ops |-> 0]
        ELSE AddServerTiming([f EXCEPT !.request_time = latest], inner.response, t)

\* ResponseFuture::poll, given what the poll of the inner future yields:
\* ready!(..) forwards Pending, `?` forwards the error.
ResponseFuturePoll(f, inner, t) ==
    IF inner.kind = "Pending" THEN [kind |-> "Pending", ops |-> 0]
    ELSE IF inner.kind = "Err" THEN [kind |-> "Err", err |-> inner.err, ops |-> 0]
    ELSE AddServerTiming(f, inner.response, t)

\* The position of the future after a poll that yielded o.
NextState(o) ==
    CASE o.kind = "Pending" -> "Running"
      [] o.kind = "Ok"      -> "Completed"
      [] o.kind = "Err"     -> "Failed"
      [] o.kind = "Panic"   -> "Panicked"

\* ------------------------------------------------- ServerTimingService
\* The request handed to call for the r-th request.
Request(r) == [id |-> r]

\* Variant: the instant is not taken at call (it is the clock's origin).
ServiceCallNoInstant(a, d, req, t) ==
    [future |-> [state |-> "Running", request_time |-> 0, app |-> a, description |-> d],
     inner  |-> req]

\* ServerTimingService::call: the future it builds and the request the
\* inner service's call receives.
ServiceCall(a, d, req, t) ==
    [future |-> [state |-> "Running", request_time |-> t, app |-> a, description |-> d],
     inner  |-> req]

\* Variant: the wrapper reports Ready(Ok) without asking the inner service.
ServicePollReadyAlways(rd, innerRes) ==
    [polls |-> rd.polls + 1, innerPolls |-> rd.innerPolls,
     ret |-> [kind |-> "Ok"], innerRet |-> rd.innerRet]

\* ServerTimingService::poll_ready, given what the inner poll_ready yields.
ServicePollReady(rd, innerRes) ==
    [polls |-> rd.polls + 1, innerPolls |-> rd.innerPolls + 1,
     ret |-> innerRes, innerRet |-> innerRes]

NoFuture == [state |-> "Idle", request_time |-> 0, app |-> <<>>, description |-> None]
NoCall == [at |-> 0, inner |-> [id |-> 0]]
NoPoll == [kind |-> "None"]

\* ------------------------------------------------------------- behaviour
\* ServerTimingLayer::new / with_description, then Layer::layer.
Init ==
    /\ app \in Apps
    /\ description \in Descriptions
    /\ now = 0
    /\ fut = [r \in Req |-> NoFuture]
    /\ innerCalls = [r \in Req |-> NoCall]
    /\ innerOut = [r \in Req |-> [at |-> 0, poll |-> NoPoll]]
    /\ out = [r \in Req |-> [kind |-> "None", ops |-> 0]]
    /\ headerOps = [r \in Req |-> 0]
    /\ ready = [polls |-> 0, innerPolls |-> 0, ret |-> NoPoll, innerRet |-> NoPoll]

\* The monotonic clock advances.
Tick ==
    /\ now < MaxTicks
    /\ now' = now + 1
    /\ UNCHANGED <<app, description, fut, innerCalls, innerOut, out, headerOps, ready>>

PollReady ==
    /\ ready.polls < MaxReadyPolls
    /\ \E res \in InnerReady : ready' = ServicePollReady(ready, res)
    /\ UNCHANGED <<app, description, now, fut, innerCalls, innerOut, out, headerOps>>

Call(r) ==
    /\ fut[r].state = "Idle"
    /\ \A q \in Req : q < r => fut[q].state # "Idle"
    /\ LET c == ServiceCall(app, description, Request(r), now) IN
         /\ fut' = [fut EXCEPT ![r] = c.future]
         /\ innerCalls' = [innerCalls EXCEPT ![r] = [at |-> now, inner |-> c.inner]]
    /\ UNCHANGED <<app, description, now, innerOut, out, headerOps, ready>>

Poll(r) ==
    /\ fut[r].state = "Running"
    /\ \E inner \in InnerPolls :
         LET o == ResponseFuturePoll(fut[r], inner, now) IN
         /\ innerOut' = [innerOut EXCEPT ![r] =
                [at |-> IF inner.kind = "Pending" THEN 0 ELSE now, poll |-> inner]]
         /\ out' = [out EXCEPT ![r] = o]
         /\ headerOps' = [headerOps EXCEPT ![r] = @ + o.ops]
         /\ fut' = [fut EXCEPT ![r].state = NextState(o)]
    /\ UNCHANGED <<app, description, now, innerCalls, ready>>

Next ==
    \/ Tick
    \/ PollReady
    \/ \E r \in Req : Call(r)
    \/ \E r \in Req : Poll(r)

Spec == Init /\ [][Next]_vars

\* ------------------------------------------------------------ properties
\* What the caller observes of request r.
InnerOk(r) == innerOut[r].poll.kind = "Ok"
InnerResponse(r) == innerOut[r].poll.response
Returned(r) == out[r].kind = "Ok"

\* The clock reading at completion minus the reading at call, in tenths of
\* a millisecond.
MeasuredTenths(r) == (innerOut[r].at - innerCalls[r].at) * ClockStep

\* name;dur=<formatted> or name;desc="desc";dur=<formatted>, from the
\* service's descriptor and the measured time of request r.
ExpectedEntry(r) ==
    IF description.some
    THEN app \o <<59, 100, 101, 115, 99, 61, 34>> \o description.val
             \o <<34, 59, 100, 117, 114, 61>> \o NumStr(MeasuredTenths(r))
    ELSE app \o <<59, 100, 117, 114, 61>> \o NumStr(MeasuredTenths(r))

\* A header value that reads as text (visible ASCII or tab).
IsText(v) == \A i \in 1..Len(v) : (v[i] >= 32 /\ v[i] < 127) \/ v[i] = 9

\* The descriptor holds a byte that no header value may hold.
IllegalDescriptor ==
    \/ \E i \in 1..Len(app) : app[i] < 32 /\ app[i] # 9
    \/ description.some /\ \E i \in 1..Len(description.val) :
          description.val[i] < 32 /\ description.val[i] # 9

C2_SingleEntry ==
    \A r \in Req :
        (Returned(r) /\ ~InnerResponse(r).timing.some)
        => out[r].response.timing = Some(ExpectedEntry(r))

\* C2 amended: the same, when the header map accepts the entry.
C2_SingleEntryWhenAccepted ==
    \A r \in Req :
        (Returned(r) /\ ~InnerResponse(r).timing.some /\ ~InnerResponse(r).full)
        => out[r].response.timing = Some(ExpectedEntry(r))

\* A response without the header came back with the entry of a described
\* metric, measured over a non-zero time.
C2_Witness ==
    \E r \in Req :
        /\ Returned(r) /\ ~InnerResponse(r).timing.some /\ ~InnerResponse(r).full
        /\ description.some
        /\ MeasuredTenths(r) > 0
        /\ out[r].response.timing.some

\* C3: when the inner future yields an error, the wrapper yields the same
\* error, the future is Failed, and the header entry was never taken.
C3_ErrorPassThrough ==
    \A r \in Req :
        innerOut[r].poll.kind = "Err"
        => /\ out[r].kind = "Err"
           /\ out[r].err = innerOut[r].poll.err
           /\ fut[r].state = "Failed"
           /\ headerOps[r] = 0

\* Both errors were passed through.
C3_Witness ==
    /\ \E r \in Req : out[r].kind = "Err" /\ out[r].err = "e1"
    /\ \E r \in Req : out[r].kind = "Err" /\ out[r].err = "e2"

\* C4 as stated: when the inner handler succeeded and the descriptor makes the
\* merged text an illegal header value, the wrapper still returns the inner
\* response, with the server-timing header as the inner handler left it.
C4_IllegalTextSwallowed ==
    \A r \in Req :
        (InnerOk(r) /\ IllegalDescriptor /\ ~InnerResponse(r).full)
        => /\ Returned(r)
           /\ out[r].response = InnerResponse(r)

\* C5: when the header map refuses the entry, the wrapper returns the inner
\* response with every header unchanged.
C5_RefusalSwallowed ==
    \A r \in Req :
        (InnerOk(r) /\ InnerResponse(r).full)
        => /\ Returned(r)
           /\ out[r].response = InnerResponse(r)
           /\ fut[r].state = "Completed"

\* A full header map refused the entry, once with the header present and once
\* with it absent.
C5_Witness ==
    /\ \E r \in Req :
        InnerOk(r) /\ InnerResponse(r).full /\ InnerResponse(r).timing.some /\ Returned(r)
    /\ \E r \in Req :
        InnerOk(r) /\ InnerResponse(r).full /\ ~InnerResponse(r).timing.some /\ Returned(r)

C7_ReadinessForwarded ==
    /\ ready.polls = ready.innerPolls
    /\ ready.ret = ready.innerRet
    /\ \A r \in Req :
        /\ fut[r].state # "Idle" => innerCalls[r].inner = Request(r)
        /\ (fut[r].state = "Idle" /\ \A q \in Req : q < r => fut[q].state # "Idle")
            => ENABLED Call(r)

\* The inner service reported an error on the last of several poll_ready
\* calls and a request is in flight.
C7_Witness ==
    /\ ready.polls = MaxReadyPolls
    /\ ready.ret.kind = "Err"
    /\ \E r \in Req : fut[r].state = "Running" /\ innerCalls[r].inner = Request(r)

\* C8 as stated: the future is Idle, Running, Completed or Failed; its poll
\* is Pending exactly when the inner poll is; it is ready on the poll on which
\* the inner future is ready; the header entry is taken at most once, and only
\* when the future completes.
C8_TransparentStates ==
    \A r \in Req :
        /\ fut[r].state \in {"Idle", "Running", "Completed", "Failed"}
        /\ (out[r].kind = "Pending") <=> (innerOut[r].poll.kind = "Pending")
        /\ innerOut[r].poll.kind \in {"Ok", "Err"} => out[r].kind \in {"Ok", "Err"}
        /\ headerOps[r] <= 1
        /\ headerOps[r] = 1 => fut[r].state = "Completed"

\* C9: the start instant of a future is the clock reading at its call and
\* stays so, the completion is never before the call, and the entry written
\* carries the completion reading minus the call reading.
C9_ElapsedFromCall ==
    \A r \in Req :
        /\ fut[r].state # "Idle" => fut[r].request_time = innerCalls[r].at
        /\ (Returned(r) /\ headerOps[r] = 1)
            => /\ innerOut[r].at >= innerCalls[r].at
               /\ MeasuredTenths(r) >= 0
               /\ Len(out[r].response.timing.val) >= Len(ExpectedEntry(r))
               /\ SubSeq(out[r].response.timing.val, 1, Len(ExpectedEntry(r)))
                    = ExpectedEntry(r)

\* A request called after the clock had advanced completed later still.
C9_Witness ==
    \E r \in Req :
        /\ Returned(r) /\ headerOps[r] = 1
        /\ innerCalls[r].at > 0
        /\ innerOut[r].at > innerCalls[r].at

\* The header of the returned response of request r when the entry was
\* accepted: its own entry, then its own old header if that reads as text.
ExpectedHeader(r) ==
    IF InnerResponse(r).timing.some /\ IsText(InnerResponse(r).timing.val)
    THEN ExpectedEntry(r) \o <<44, 32>> \o InnerResponse(r).timing.val
    ELSE ExpectedEntry(r)

\* C10 as stated: every future carries the service's descriptor, and every
\* returned response got exactly one entry, built from its own start instant
\* and its own old header.
C10_OneEntryEach ==
    \A r \in Req :
        /\ fut[r].state # "Idle"
            => fut[r].app = app /\ fut[r].description = description
        /\ Returned(r)
            => /\ headerOps[r] = 1
               /\ out[r].response.timing = Some(ExpectedHeader(r))

\* C10 amended, per state: every future carries the service's descriptor; a returned
\* response got exactly one entry, built from its own start instant and its
\* own old header, unless its header map refused the entry, and then none.
C10_EachOwn ==
    \A r \in Req :
        /\ fut[r].state # "Idle"
            => fut[r].app = app /\ fut[r].description = description
        /\ (Returned(r) /\ ~InnerResponse(r).full)
            => /\ headerOps[r] = 1
               /\ out[r].response.timing = Some(ExpectedHeader(r))
        /\ (Returned(r) /\ InnerResponse(r).full)
            => /\ headerOps[r] = 0
               /\ out[r].response.timing = InnerResponse(r).timing

\* C10 amended, in full: the above always holds, and no step changes the
\* service's descriptor.
C10_Independent ==
    /\ []C10_EachOwn
    /\ [][app' = app /\ description' = description]_vars

\* Two requests were in flight together, were called at different instants,
\* and both came back with an entry over different measured times.
C10_Witness ==
    /\ innerCalls[1].at < innerCalls[2].at
    /\ innerCalls[2].at <= innerOut[1].at
    /\ \A r \in Req : Returned(r) /\ headerOps[r] = 1
    /\ MeasuredTenths(1) # MeasuredTenths(2)
    /\ InnerResponse(1).timing # InnerResponse(2).timing

====
